---------------------------- MODULE Spec2Model ----------------------------
(***************************************************************************)
(* A model of restruct (src/restruct.py): the codec combinators, the IO    *)
(* cursor, the Context path stack, the Generic resolution stacks and the   *)
(* parse / emit / sizeof drivers.                                          *)
(*                                                                         *)
(* One call of a driver is one action.  A codec's parse / emit / sizeof is *)
(* an operator over an interpreter state `st` that carries everything the  *)
(* call can change: the stream (buf, pos), the context path, the Generic    *)
(* stacks, the Switch selectors, the pending exception and the value        *)
(* returned.  Two fields of `st` are observers that the program does not    *)
(* have: `encl`, the names of the scopes that really enclose the running    *)
(* codec, and `log`, the sequence of field events of the records.           *)
(***************************************************************************)
EXTENDS Integers, Sequences, FiniteSets, TLC

VARIABLES typ,      \* the codec under test (a spec handed to the drivers)
          io,       \* the caller's stream: [buf, pos]
          ctx,      \* the path stack of the caller's Context object
          stacks,   \* Generic.stack of every generic slot
          sel,      \* Switch.selector of every switch
          last,     \* what the last driver call was given and what it did
          calls     \* the number of driver calls made so far

vars == <<typ, io, ctx, stacks, sel, last, calls>>

RECURSIVE parse(_, _), emit(_, _, _, _), sizeof(_, _, _, _)
RECURSIVE StructParseFields(_, _, _, _, _, _), StructEmitFields(_, _, _, _, _, _)
RECURSIVE StructSizeofFields(_, _, _, _, _)
RECURSIVE ArrParseLoop(_, _, _, _, _), ArrEmitLoop(_, _, _, _, _)
RECURSIVE ArrSizeofLoop(_, _, _, _, _)

(***************************************************************************)
(* Bounds of the model.                                                    *)
(***************************************************************************)
\* the number of driver calls a caller makes on one codec and one stream
MaxCalls == 2

Min(a, b) == IF a < b THEN a ELSE b
Max(a, b) == IF a > b THEN a ELSE b
Front(s) == SubSeq(s, 1, Len(s) - 1)
Last(s) == s[Len(s)]

RECURSIVE Pow256(_)
Pow256(i) == IF i = 0 THEN 1 ELSE 256 * Pow256(i - 1)

(***************************************************************************)
(* Values.  Every value is a record [t, v] so that values of different     *)
(* Python types can be compared.                                           *)
(***************************************************************************)
NoneV == [t |-> "None", v |-> 0]
IntV(n) == [t |-> "int", v |-> n]
ListV(s) == [t |-> "list", v |-> s]
BytesV(s) == [t |-> "bytes", v |-> s]
StrV(s) == [t |-> "str", v |-> s]
ObjV(f) == [t |-> "obj", v |-> f]

\* a frame of the path: a field name or an array index
Name(s) == [s |-> s, i |-> 0 - 1]
Index(i) == [s |-> "", i |-> i]

(***************************************************************************)
(* Exceptions.  `kind` is the class of the exception in flight; an Error   *)
(* carries the class of the exception it wraps and its copy of the path.   *)
(* `at` is the observer's record of the scopes enclosing the raise.        *)
(***************************************************************************)
NoExc == [kind |-> "none", cause |-> "", path |-> <<>>, at |-> <<>>]
Raised(st) == st.exc.kind # "none"
Raise(st, kind) ==
    [st EXCEPT !.exc = [kind |-> kind, cause |-> "", path |-> <<>>, at |-> st.encl],
               !.ret = NoneV]

\* Error.__init__(context, exception): the path is context.path.copy()
ErrorOf(st, exception) ==
    [kind |-> "Error", cause |-> exception.kind, path |-> st.path, at |-> exception.at]

\* raise Error(context, 'message'): a message is wrapped as a ValueError
RaiseError(st) ==
    [st EXCEPT !.exc = ErrorOf(st, [kind |-> "ValueError", at |-> st.encl]),
               !.ret = NoneV]

Return(st, value) == [st EXCEPT !.ret = value]

(***************************************************************************)
(* The stream.  Level 0 is the io.BytesIO that to_io builds: (buf, pos).   *)
(* Level k > 0 is the SizedFile st.views[k], whose _file is level k - 1;   *)
(* a codec works on the topmost level.  `reads` is the observer's record   *)
(* of every SizedFile.read.                                                *)
(***************************************************************************)
RECURSIVE FileReadData(_, _, _), FileRead(_, _, _), FileWrite(_, _, _), FileSeek(_, _, _, _)

\* BytesIO.tell and SizedFile.tell (self._start + self._pos)
FileTell(st, k) == IF k = 0 THEN st.pos ELSE st.views[k].start + st.views[k].pos

\* the n that SizedFile.read hands on to self._file.read
SizedReadLength(view, n) ==
    LET remaining == view.limit - view.pos
    IN Min(IF n < 0 THEN remaining ELSE n, remaining)

\* the bytes read(n) returns: BytesIO returns at most n, fewer at the end, and all
\* the rest for n < 0; SizedFile returns what its file returns
FileReadData(st, k, n) ==
    IF k = 0
    THEN LET avail == IF st.pos >= Len(st.buf) THEN 0 ELSE Len(st.buf) - st.pos
             m == IF n < 0 THEN avail ELSE Min(n, avail)
         IN SubSeq(st.buf, st.pos + 1, st.pos + m)
    ELSE FileReadData(st, k - 1, SizedReadLength(st.views[k], n))

\* the observer's note of a SizedFile.read: the view, what was asked for and where
\* in the file below the bytes returned lie
ReadNote(st, k, n) ==
    [start |-> st.views[k].start, limit |-> st.views[k].limit, cursor |-> st.views[k].pos,
     n |-> n, from |-> FileTell(st, k - 1), got |-> Len(FileReadData(st, k, n))]

\* read(n): SizedFile adds the length it asks for to _pos, whatever comes back
FileRead(st, k, n) ==
    IF k = 0 THEN [st EXCEPT !.pos = st.pos + Len(FileReadData(st, 0, n))]
    ELSE [FileRead(st, k - 1, SizedReadLength(st.views[k], n))
             EXCEPT !.views[k].pos = @ + SizedReadLength(st.views[k], n),
                    !.reads = Append(@, ReadNote(st, k, n))]

\* BytesIO.write(b): overwrite from the cursor, zero-filling a gap past the end
BytesWrite(st, b) ==
    LET end == st.pos + Len(b)
        newlen == Max(Len(st.buf), end)
    IN [st EXCEPT !.buf = [i \in 1..newlen |->
                              IF i > st.pos /\ i <= end THEN b[i - st.pos]
                              ELSE IF i <= Len(st.buf) THEN st.buf[i] ELSE 0],
                  !.pos = end]

\* write(b): SizedFile refuses what does not fit between _pos and _limit
FileWrite(st, k, b) ==
    IF k = 0 THEN BytesWrite(st, b)
    ELSE IF Len(b) > st.views[k].limit - st.views[k].pos THEN Raise(st, "ValueError")
    ELSE FileWrite([st EXCEPT !.views[k].pos = @ + Len(b)], k - 1, b)

\* the absolute position SizedFile.seek computes; its third branch tests SEEK_SET
\* again, so SEEK_END leaves pos unbound
SizedSeekTarget(view, offset, whence) ==
    IF whence = "set" THEN offset ELSE view.start + view.pos + offset

\* seek(offset, whence).  BytesIO: a negative absolute position is a ValueError and
\* a relative seek stops at 0.  SizedFile: a position before _start raises (the
\* name errno is not defined: NameError); otherwise _pos = pos - _start and
\* the file below seeks to pos
FileSeek(st, k, offset, whence) ==
    IF k = 0
    THEN CASE whence = "set" ->
                 IF offset < 0 THEN Raise(st, "ValueError") ELSE [st EXCEPT !.pos = offset]
           [] whence = "cur" -> [st EXCEPT !.pos = Max(0, st.pos + offset)]
           [] whence = "end" -> [st EXCEPT !.pos = Max(0, Len(st.buf) + offset)]
    ELSE IF whence = "end" THEN Raise(st, "UnboundLocalError")
    ELSE IF SizedSeekTarget(st.views[k], offset, whence) < st.views[k].start
    THEN Raise(st, "NameError")
    ELSE FileSeek([st EXCEPT !.views[k].pos =
                                SizedSeekTarget(st.views[k], offset, whence) - st.views[k].start],
                  k - 1, SizedSeekTarget(st.views[k], offset, whence), "set")

\* the stream a codec is handed: the topmost level
IOtell(st) == FileTell(st, Len(st.views))
IOreadData(st, n) == FileReadData(st, Len(st.views), n)
IOread(st, n) == FileRead(st, Len(st.views), n)
IOwrite(st, b) == FileWrite(st, Len(st.views), b)
IOseekSet(st, n) == FileSeek(st, Len(st.views), n, "set")
IOseekCur(st, n) == FileSeek(st, Len(st.views), n, "cur")
IOseek(st, n, whence) == FileSeek(st, Len(st.views), n, whence)

(***************************************************************************)
(* Context.enter(name, parser): push on entry; the pop after the yield is  *)
(* reached only when the body of the with-statement ends without an        *)
(* exception (the generator has no try/finally).                           *)
(***************************************************************************)
Enter(st, name) == [st EXCEPT !.path = Append(@, name), !.encl = Append(@, name)]

Exit(st) ==
    IF Raised(st) THEN [st EXCEPT !.encl = Front(@)]
    ELSE [st EXCEPT !.path = Front(@), !.encl = Front(@)]

(***************************************************************************)
(* Codecs.  A codec is a record whose field k names its class.             *)
(***************************************************************************)
\* the spec None (a record field without a codec)
NoType == [k |-> "NoneType"]

\* Int.__init__(bits, order, signed) (Int names the integers here)
IntCodec(bits, order, signed) == [k |-> "Int", bits |-> bits, order |-> order, signed |-> signed]
\* UInt.__new__: Int(*args, signed=False)
UInt(bits, order) == IntCodec(bits, order, FALSE)

Fixed(pattern) == [k |-> "Fixed", pattern |-> pattern]

\* Str.__init__; the terminator defaults to b'\x00' * length_unit
Str(length, type, terminator, exact, length_unit, length_type) ==
    [k |-> "Str", length |-> length, type |-> type,
     terminator |-> IF terminator = <<>> THEN [i \in 1..length_unit |-> 0] ELSE terminator,
     exact |-> exact, length_unit |-> length_unit, length_type |-> length_type]

Arr(type, count, size, stop_value) ==
    [k |-> "Arr", type |-> type, count |-> count, size |-> size, stop_value |-> stop_value]

\* a Generic slot; its stack lives in st.gen[id]
Generic(id) == [k |-> "Generic", id |-> id]

\* a Switch; its selector lives in st.sel[id]; options is a sequence of [key, type]
Switch(id, options, fallback) ==
    [k |-> "Switch", id |-> id, options |-> options, fallback |-> fallback]

\* StructType.__init__; fields is a sequence of [name, type]; hooks is the sequence
\* of the on_<name> methods of cls, each [name, sw]: on_<name> stores the field's
\* value in the selector of Switch sw
StructType(fields, generics, bound, union, partial, hooks) ==
    [k |-> "StructType", fields |-> fields, generics |-> generics, bound |-> bound,
     union |-> union, partial |-> partial, hooks |-> hooks]

Field(name, type) == [name |-> name, type |-> type]

\* Data.__init__(size)
Data(size) == [k |-> "Data", size |-> size]

\* AtOffset.__init__(type, point, reference); reference is "set", "cur" or "end"
AtOffset(type, point, reference) ==
    [k |-> "AtOffset", type |-> type, point |-> point, reference |-> reference]

\* Ref.__init__(value_type, offset_type, reference)
Ref(value_type, offset_type, reference) ==
    [k |-> "Ref", value_type |-> value_type, offset_type |-> offset_type, reference |-> reference]

\* WithSize.__init__(type, limit, exact); limit is a number in every codec here
WithSize(type, limit, exact) == [k |-> "WithSize", type |-> type, limit |-> limit, exact |-> exact]

\* Lazy.__init__(type, size)
Lazy(type, size) == [k |-> "Lazy", type |-> type, size |-> size]

\* AlignTo.__init__(type, alignment, value); value is the fill, b'\x00' by default
AlignTo(type, alignment, value) ==
    [k |-> "AlignTo", type |-> type, alignment |-> alignment, value |-> value]

\* AlignedTo.__init__(child, alignment, value)
AlignedTo(child, alignment, value) ==
    [k |-> "AlignedTo", child |-> child, alignment |-> alignment, value |-> value]
FieldNames(type) == {type.fields[i].name : i \in 1..Len(type.fields)}

(***************************************************************************)
(* Int: int.from_bytes and int.to_bytes, byte by byte.                     *)
(***************************************************************************)
\* the bytes most significant first
BigEndian(bs, order) == IF order = "le" THEN [i \in 1..Len(bs) |-> bs[Len(bs) + 1 - i]] ELSE bs

RECURSIVE Horner(_, _, _)
Horner(bs, i, acc) == IF i > Len(bs) THEN acc ELSE Horner(bs, i + 1, acc * 256 + bs[i])

\* int.from_bytes(bs, byteorder, signed)
FromBytes(bs, order, signed) ==
    LET be == BigEndian(bs, order)
    IN IF Len(be) = 0 THEN 0
       ELSE Horner(be, 2, IF signed /\ be[1] >= 128 THEN be[1] - 256 ELSE be[1])

\* value.to_bytes raises OverflowError when the value does not fit
Fits(v, n, signed) ==
    IF n = 0 THEN v = 0
    ELSE LET top == v \div Pow256(n - 1)
         IN IF signed THEN top >= 0 - 128 /\ top <= 127 ELSE top >= 0 /\ top <= 255

\* ToBytes with the byte order ignored
ToBytes_BigEndianOnly(v, n, order, signed) == [i \in 1..n |-> (v \div Pow256(n - i)) % 256]

\* value.to_bytes(n, byteorder, signed): two's complement, in the given order
ToBytes(v, n, order, signed) ==
    LET be == [i \in 1..n |-> (v \div Pow256(n - i)) % 256]
    IN BigEndian(be, order)

IntParse(type, st) ==
    LET n == type.bits \div 8
        bs == IOreadData(st, n)
        s1 == IOread(st, n)
    IN IF Len(bs) # n THEN Raise(s1, "ValueError")
       ELSE Return(s1, IntV(FromBytes(bs, type.order, type.signed)))

IntEmit(type, value, st) ==
    LET n == type.bits \div 8
    IN IF value.t # "int" THEN Raise(st, "AttributeError")
       ELSE IF ~Fits(value.v, n, type.signed) THEN Raise(st, "OverflowError")
       ELSE Return(IOwrite(st, ToBytes(value.v, n, type.order, type.signed)), NoneV)

IntSizeof(type, value, st) == Return(st, IntV(type.bits \div 8))

(***************************************************************************)
(* Fixed                                                                   *)
(***************************************************************************)
FixedParse(type, st) ==
    LET data == IOreadData(st, Len(type.pattern))
        s1 == IOread(st, Len(type.pattern))
    IN IF data # type.pattern THEN RaiseError(s1) ELSE Return(s1, BytesV(data))

\* io.write(value): the value given is written, whatever the pattern is
FixedEmit(type, value, st) ==
    IF value.t # "bytes" THEN Raise(st, "TypeError")
    ELSE Return(IOwrite(st, value.v), NoneV)

FixedSizeof(type, value, st) == Return(st, IntV(Len(type.pattern)))


(***************************************************************************)
(* Str.  A str is a sequence of code points below 0x800; utf-8 encodes a   *)
(* code point below 0x80 as one byte and the others as two.                *)
(***************************************************************************)
Utf8(cp) == IF cp < 128 THEN <<cp>> ELSE <<192 + (cp \div 64), 128 + (cp % 64)>>

RECURSIVE Encode(_)
\* value.encode('utf-8')
Encode(s) == IF s = <<>> THEN <<>> ELSE Utf8(s[1]) \o Encode(Tail(s))

RECURSIVE Decodable(_)
\* whether raw.decode('utf-8') succeeds (it raises UnicodeDecodeError otherwise)
Decodable(bs) ==
    IF bs = <<>> THEN TRUE
    ELSE IF bs[1] < 128 THEN Decodable(Tail(bs))
    ELSE IF bs[1] >= 194 /\ bs[1] <= 223 /\ Len(bs) >= 2 /\ bs[2] >= 128 /\ bs[2] <= 191
         THEN Decodable(Tail(Tail(bs)))
    ELSE FALSE

RECURSIVE Decode(_)
\* raw.decode('utf-8') of decodable bytes
Decode(bs) ==
    IF bs = <<>> THEN <<>>
    ELSE IF bs[1] < 128 THEN <<bs[1]>> \o Decode(Tail(bs))
    ELSE <<(bs[1] - 192) * 64 + (bs[2] - 128)>> \o Decode(Tail(Tail(bs)))

RECURSIVE StrReadLoop(_, _, _, _, _)
\* a loop that does not look for the terminator
StrReadLoop_PastTerminator(type, st, i, read_length, raw) ==
    IF type.length # NoneV /\ i > type.length.v
    THEN [st |-> st, read_length |-> read_length, raw |-> raw]
    ELSE LET c == IOreadData(st, type.length_unit)
             s1 == IOread(st, type.length_unit)
         IN IF c = <<>>
            THEN [st |-> s1, read_length |-> read_length + 1, raw |-> raw]
            ELSE StrReadLoop(type, s1, i + 1, read_length + 1, raw \o c)

\* the loop of the kinds raw and c: for i in itertools.count(start=1)
StrReadLoop(type, st, i, read_length, raw) ==
    IF type.length # NoneV /\ i > type.length.v
    THEN [st |-> st, read_length |-> read_length, raw |-> raw]
    ELSE LET c == IOreadData(st, type.length_unit)
             s1 == IOread(st, type.length_unit)
         IN IF c = <<>> \/ (type.type = "c" /\ c = type.terminator)
            THEN [st |-> s1, read_length |-> read_length + 1, raw |-> raw]
            ELSE StrReadLoop(type, s1, i + 1, read_length + 1, raw \o c)

\* the tail of Str.parse: the exact-length padding, then the decoding
StrParseTail(type, st, read_length, raw) ==
    LET over == type.exact /\ type.length # NoneV /\ read_length > type.length.v
        left == IF type.exact /\ type.length # NoneV THEN type.length.v - read_length ELSE 0
        s1 == IF left # 0 THEN IOread(st, left * type.length_unit) ELSE st
    IN IF over THEN Raise(st, "ValueError")
       ELSE IF ~Decodable(raw) THEN Raise(s1, "UnicodeDecodeError")
       ELSE Return(s1, StrV(Decode(raw)))

StrParse(type, st) ==
    IF type.type = "pascal"
    THEN LET s1 == parse(type.length_type, st)
         IN IF Raised(s1) THEN s1
            ELSE LET read_length == IF type.length # NoneV
                                    THEN Min(s1.ret.v, type.length.v) ELSE s1.ret.v
                     raw == IOreadData(s1, read_length * type.length_unit)
                     s2 == IOread(s1, read_length * type.length_unit)
                 IN StrParseTail(type, s2, read_length, raw)
    ELSE LET r == StrReadLoop(type, st, 1, 0, <<>>)
         IN StrParseTail(type, r.st, r.read_length, r.raw)

\* write_length = (len(value) + len(terminator)) // length_unit
WriteLength(type, value) == (Len(value.v) + Len(type.terminator)) \div type.length_unit

\* the tail of Str.emit: the exact-length check and the padding
StrEmitTail(type, value, st) ==
    IF Raised(st) THEN st
    ELSE IF type.exact /\ type.length # NoneV
    THEN LET left == type.length.v - WriteLength(type, value)
         IN IF left < 0 THEN Raise(st, "ValueError")
            ELSE IF left # 0
            THEN Return(IOwrite(st, [i \in 1..(left * type.length_unit) |-> 0]), NoneV)
            ELSE Return(st, NoneV)
    ELSE Return(st, NoneV)

StrEmit(type, value, st) ==
    IF value.t # "str" THEN Raise(st, "AttributeError")
    ELSE LET raw == Encode(value.v)
         IN IF type.type = "pascal"
            THEN LET s1 == emit(type.length_type, IntV(WriteLength(type, value)), st, TRUE)
                 IN StrEmitTail(type, value, IF Raised(s1) THEN s1 ELSE IOwrite(s1, raw))
            ELSE IF type.type = "c"
            THEN LET s1 == IOwrite(st, raw)
                 IN StrEmitTail(type, value,
                                IF Raised(s1) THEN s1 ELSE IOwrite(s1, type.terminator))
            ELSE StrEmitTail(type, value, st)

StrSizeof(type, value, st) ==
    LET known == (type.exact /\ type.length # NoneV) \/ value # NoneV
        l == IF type.exact /\ type.length # NoneV THEN type.length.v * type.length_unit
             ELSE Len(Encode(value.v)) + (IF type.type = "c" THEN Len(type.terminator) ELSE 0)
    IN IF ~known THEN Return(st, NoneV)
       ELSE IF ~(type.exact /\ type.length # NoneV) /\ value.t # "str"
       THEN Raise(st, "AttributeError")
       ELSE IF type.type = "pascal"
       THEN LET s1 == sizeof(type.length_type, IntV(l), st, TRUE)
            IN IF Raised(s1) \/ s1.ret = NoneV THEN s1
               ELSE Return(s1, IntV(l + s1.ret.v))
       ELSE Return(st, IntV(l))


(***************************************************************************)
(* Generic: a stack of bound codecs                                        *)
(***************************************************************************)
\* Generic.resolve(value): push value, or the top of value's stack if it is a Generic
GenericResolve(st, id, value) ==
    IF value.k = "Generic"
    THEN IF st.gen[value.id] = <<>> THEN Raise(st, "IndexError")
         ELSE [st EXCEPT !.gen[id] = Append(@, Last(st.gen[value.id]))]
    ELSE [st EXCEPT !.gen[id] = Append(@, value)]

\* Generic.pop()
GenericPop(st, id) ==
    IF st.gen[id] = <<>> THEN Raise(st, "IndexError")
    ELSE [st EXCEPT !.gen[id] = Front(@)]

GenericParse(type, st) ==
    IF st.gen[type.id] = <<>> THEN RaiseError(st)
    ELSE parse(Last(st.gen[type.id]), st)

GenericEmit(type, value, st) ==
    IF st.gen[type.id] = <<>> THEN RaiseError(st)
    ELSE emit(Last(st.gen[type.id]), value, st, TRUE)

GenericSizeof(type, value, st) ==
    IF st.gen[type.id] = <<>> THEN Return(st, NoneV)
    ELSE sizeof(Last(st.gen[type.id]), value, st, TRUE)

RECURSIVE ResolveAll(_, _, _)
\* for g, child in zip(self.generics, self.bound): g.resolve(child)
ResolveAll(type, st, i) ==
    IF i > Min(Len(type.generics), Len(type.bound)) \/ Raised(st) THEN st
    ELSE ResolveAll(type, GenericResolve(st, type.generics[i], type.bound[i]), i + 1)

RECURSIVE PopAll(_, _, _)
\* for g in self.generics: g.pop()
PopAll(type, st, i) ==
    IF i > Len(type.generics) \/ Raised(st) THEN st
    ELSE PopAll(type, GenericPop(st, type.generics[i]), i + 1)

(***************************************************************************)
(* Switch                                                                  *)
(***************************************************************************)
HasOption(type, selector) == \E i \in 1..Len(type.options) : type.options[i].key = selector
Option(type, selector) ==
    type.options[CHOOSE i \in 1..Len(type.options) : type.options[i].key = selector].type

\* Switch.current raises ValueError when neither an option nor the fallback applies
CurrentFails(type, st) ==
    LET selector == st.sel[type.id]
    IN type.fallback = NoType /\ (selector = NoneV \/ ~HasOption(type, selector))

\* Switch.current
Current(type, st) ==
    LET selector == st.sel[type.id]
    IN IF selector # NoneV /\ HasOption(type, selector) THEN Option(type, selector)
       ELSE type.fallback

SwitchParse(type, st) ==
    IF CurrentFails(type, st) THEN Raise(st, "ValueError") ELSE parse(Current(type, st), st)

SwitchEmit(type, value, st) ==
    IF CurrentFails(type, st) THEN Raise(st, "ValueError")
    ELSE emit(Current(type, st), value, st, TRUE)

SwitchSizeof(type, value, st) ==
    IF CurrentFails(type, st) THEN Raise(st, "ValueError")
    ELSE sizeof(Current(type, st), value, st, TRUE)


(***************************************************************************)
(* StructType                                                              *)
(***************************************************************************)
\* the observer's note of a field event: what happened to which field, at which
\* nesting depth and with the cursor where
Note(st, e, name) ==
    [st EXCEPT !.log = Append(@, [e |-> e, n |-> name, d |-> Len(st.encl), pos |-> IOtell(st)])]

HasHook(type, name) == \E i \in 1..Len(type.hooks) : type.hooks[i].name = name

\* the method on_<name> of the value object: it sets the selector of a Switch to
\* the value of the field (the hook of the tagged-switch records)
Hook(type, name, obj, st) ==
    LET h == type.hooks[CHOOSE i \in 1..Len(type.hooks) : type.hooks[i].name = name]
    IN [st EXCEPT !.sel[h.sw] = obj[name]]

\* hook = 'on_' + name; if hasattr(c, hook): getattr(c, hook)(self.fields, context)
RunHook(type, name, obj, st) ==
    IF HasHook(type, name) THEN Note(Hook(type, name, obj, st), "hook", name) ELSE st

\* UpdateN with a sequential record adding nbytes up
UpdateN_Accumulate(union, n, nbytes) == IF union THEN Max(n, nbytes) ELSE n + nbytes

\* n after a field that left the cursor nbytes past pos
UpdateN(union, n, nbytes) == IF union THEN Max(n, nbytes) ELSE nbytes

\* UnionSeek with the seek left out
UnionSeek_Skipped(type, st, pos) == st

\* if self.union: io.seek(pos, os.SEEK_SET)
UnionSeek(type, st, pos) == IF type.union THEN IOseekSet(st, pos) ELSE st

\* StoreAndHook with the hook called before the value is stored
StoreAndHook_HookFirst(type, name, c, st) ==
    [st |-> Note(RunHook(type, name, c, st), "store", name), c |-> [c EXCEPT ![name] = st.ret]]

\* setattr(c, name, val), then the hook of the field
StoreAndHook(type, name, c, st) ==
    LET c2 == [c EXCEPT ![name] = st.ret]
    IN [st |-> RunHook(type, name, c2, Note(st, "store", name)), c |-> c2]

\* the loop over self.fields.items() of StructType.parse, from field i on; it ends
\* at the first exception, with n and c as they are then
StructParseFields(type, st, i, pos, n, c) ==
    IF i > Len(type.fields) THEN [st |-> st, n |-> n, c |-> c]
    ELSE LET f == type.fields[i]
             s0 == Enter(st, Name(f.name))
         IN IF f.type = NoType
            THEN StructParseFields(type, Exit(s0), i + 1, pos, n, c)
            ELSE LET s1 == Note(UnionSeek(type, s0, pos), "begin", f.name)
                     s2 == parse(f.type, s1)
                 IN IF Raised(s2) THEN [st |-> Exit(s2), n |-> n, c |-> c]
                    ELSE LET n2 == UpdateN(type.union, n, IOtell(s2) - pos)
                             r == StoreAndHook(type, f.name, c, Note(s2, "end", f.name))
                         IN IF Raised(r.st) THEN [st |-> Exit(r.st), n |-> n2, c |-> r.c]
                            ELSE StructParseFields(type, Exit(r.st), i + 1, pos, n2, r.c)

\* the observer's note of an exception that reaches the except clause of a record
\* parse: the nesting depth of the record and the cursor as the field left it
NoteExcept(st) ==
    [st EXCEPT !.excepts = Append(@, [d |-> Len(st.encl), pos |-> IOtell(st)])]

\* except Exception: b = io.read(1); the exception is swallowed only when the
\* record is partial and b is empty, and is raised again otherwise, after seek(-1)
\* when a byte was read
CatchEOF(type, st) ==
    LET b == IOreadData(st, 1)
        s1 == IOread(NoteExcept(st), 1)
    IN IF ~type.partial \/ b # <<>>
       THEN (IF b # <<>> THEN IOseekCur(s1, 0 - 1) ELSE s1)
       ELSE [s1 EXCEPT !.exc = NoExc]

StructParse(type, st) ==
    LET pos == IOtell(st)
        s1 == ResolveAll(type, st, 1)
    IN IF Raised(s1) THEN s1
       ELSE LET r == StructParseFields(type, s1, 1, pos, 0, [x \in FieldNames(type) |-> NoneV])
                s2 == IF Raised(r.st) THEN CatchEOF(type, r.st) ELSE r.st
            IN IF Raised(s2) THEN s2
               ELSE LET s3 == PopAll(type, s2, 1)
                    IN IF Raised(s3) THEN s3
                       ELSE Return(IOseekSet(s3, pos + r.n), ObjV(r.c))

\* getattr(value, name): an AttributeError when value has no such attribute
HasAttr(value, name) == value.t = "obj" /\ name \in DOMAIN value.v

\* the loop over self.fields.items() of StructType.emit, from field i on
StructEmitFields(type, value, st, i, pos, n) ==
    IF i > Len(type.fields) THEN [st |-> st, n |-> n]
    ELSE LET f == type.fields[i]
             s0 == UnionSeek(type, Enter(st, Name(f.name)), pos)
         IN IF ~HasAttr(value, f.name) THEN [st |-> Exit(Raise(s0, "AttributeError")), n |-> n]
            ELSE LET s2 == emit(f.type, value.v[f.name], Note(s0, "begin", f.name), TRUE)
                 IN IF Raised(s2) THEN [st |-> Exit(s2), n |-> n]
                    ELSE LET n2 == UpdateN(type.union, n, IOtell(s2) - pos)
                             s3 == RunHook(type, f.name, value.v, Note(s2, "end", f.name))
                         IN IF Raised(s3) THEN [st |-> Exit(s3), n |-> n2]
                            ELSE StructEmitFields(type, value, Exit(s3), i + 1, pos, n2)

StructEmit(type, value, st) ==
    LET pos == IOtell(st)
        s1 == ResolveAll(type, st, 1)
    IN IF Raised(s1) THEN s1
       ELSE LET r == StructEmitFields(type, value, s1, 1, pos, 0)
            IN IF Raised(r.st) THEN r.st
               ELSE LET s3 == PopAll(type, r.st, 1)
                    IN IF Raised(s3) THEN s3
                       ELSE Return(IOseekSet(s3, pos + r.n), NoneV)

\* bool(value): None, 0 and the empty containers are false
Truthy(value) ==
    CASE value.t = "None" -> FALSE
      [] value.t = "int" -> value.v # 0
      [] value.t \in {"list", "bytes", "str"} -> value.v # <<>>
      [] OTHER -> TRUE

\* the loop over self.fields.items() of StructType.sizeof, from field i on; n is
\* NoneV once a field's size is unknown
StructSizeofFields(type, value, st, i, n) ==
    IF i > Len(type.fields) THEN Return(st, n)
    ELSE LET f == type.fields[i]
             s0 == Enter(st, Name(f.name))
         IN IF Truthy(value) /\ ~HasAttr(value, f.name) THEN Exit(Raise(s0, "AttributeError"))
            ELSE LET field == IF Truthy(value) THEN value.v[f.name] ELSE NoneV
                     s1 == sizeof(f.type, field, s0, TRUE)
                 IN IF Raised(s1) THEN Exit(s1)
                    ELSE IF s1.ret = NoneV THEN Return(Exit(s1), NoneV)
                    ELSE StructSizeofFields(type, value, Exit(s1), i + 1,
                            IntV(IF type.union THEN Max(n.v, s1.ret.v) ELSE n.v + s1.ret.v))

\* StructType.sizeof resolves the generics and returns without popping them
StructSizeof(type, value, st) ==
    LET s1 == ResolveAll(type, st, 1)
    IN IF Raised(s1) THEN s1 ELSE StructSizeofFields(type, value, s1, 1, IntV(0))


(***************************************************************************)
(* Arr                                                                     *)
(***************************************************************************)
\* the while loop of Arr.parse, from element i on
ArrParseLoop(type, st, i, start, value) ==
    IF type.count # NoneV /\ ~(i < type.count.v) THEN Return(st, ListV(value))
    ELSE IF type.size # NoneV /\ IOtell(st) - start >= type.size.v THEN Return(st, ListV(value))
    ELSE LET s1 == parse(type.type, Enter(st, Index(i)))
         IN IF Raised(s1)
            THEN \* except Exception: if not io.read(1): break; io.seek(-1); raise
                 IF IOreadData(s1, 1) = <<>>
                 THEN Return(Exit([IOread(s1, 1) EXCEPT !.exc = NoExc]), ListV(value))
                 ELSE Exit(IOseekCur(IOread(s1, 1), 0 - 1))
            ELSE IF s1.ret = type.stop_value THEN Return(Exit(s1), ListV(value))
            ELSE ArrParseLoop(type, Exit(s1), i + 1, start, Append(value, s1.ret))

ArrParse(type, st) == ArrParseLoop(type, st, 0, IOtell(st), <<>>)

\* the for loop of Arr.emit over enumerate(value), from element i on
ArrEmitLoop(type, value, st, i, start) ==
    IF i >= Len(value) THEN Return(st, NoneV)
    ELSE IF type.size # NoneV /\ IOtell(st) - start >= type.size.v THEN Raise(st, "ValueError")
    ELSE LET s1 == emit(type.type, value[i + 1], Enter(st, Index(i)), TRUE)
         IN IF Raised(s1) THEN Exit(s1)
            ELSE ArrEmitLoop(type, value, Exit(s1), i + 1, start)

\* ArrEmit with no stop value appended
ArrEmit_NoStopValue(type, value, st) ==
    IF value.t # "list" THEN Raise(st, "TypeError") ELSE ArrEmitLoop(type, value.v, st, 0, IOtell(st))

ArrEmit(type, value, st) ==
    IF value.t # "list" THEN Raise(st, "TypeError")
    ELSE ArrEmitLoop(type,
                     IF type.stop_value # NoneV THEN Append(value.v, type.stop_value) ELSE value.v,
                     st, 0, IOtell(st))

\* the for loop of Arr.sizeof over range(count), from element i on, then the
\* size of the stop value
ArrSizeofLoop(type, value, st, i, l) ==
    IF i >= type.count.v
    THEN IF type.stop_value # NoneV
         THEN LET s1 == sizeof(type.type, type.stop_value, st, TRUE)
              IN IF Raised(s1) THEN s1
                 ELSE IF s1.ret = NoneV THEN Raise(s1, "TypeError")
                 ELSE Return(s1, IntV(l + s1.ret.v))
         ELSE Return(st, IntV(l))
    ELSE IF value # NoneV /\ value.t # "list" THEN Raise(st, "TypeError")
    ELSE IF value # NoneV /\ i >= Len(value.v) THEN Raise(st, "IndexError")
    ELSE LET s1 == sizeof(type.type, IF value # NoneV THEN value.v[i + 1] ELSE NoneV, st, TRUE)
         IN IF Raised(s1) THEN s1
            ELSE IF s1.ret = NoneV THEN Raise(s1, "TypeError")
            ELSE ArrSizeofLoop(type, value, s1, i + 1, l + s1.ret.v)

ArrSizeof(type, value, st) ==
    IF type.size # NoneV THEN Return(st, type.size)
    ELSE IF type.count = NoneV THEN Return(st, NoneV)
    ELSE ArrSizeofLoop(type, value, st, 0, 0)

(***************************************************************************)
(* Data                                                                    *)
(***************************************************************************)
\* io.read(size), all the rest for size None; a short read is raise Error(...)
DataParse(type, st) ==
    LET size == IF type.size = NoneV THEN 0 - 1 ELSE type.size.v
        data == IOreadData(st, size)
    IN IF size >= 0 /\ Len(data) # size THEN RaiseError(IOread(st, size))
       ELSE Return(IOread(st, size), BytesV(data))

\* io.write(value)
DataEmit(type, value, st) ==
    IF value.t # "bytes" THEN Raise(st, "TypeError") ELSE Return(IOwrite(st, value.v), NoneV)

DataSizeof(type, value, st) ==
    IF value # NoneV
    THEN IF value.t \in {"bytes", "str", "list"} THEN Return(st, IntV(Len(value.v)))
         ELSE Raise(st, "TypeError")
    ELSE Return(st, type.size)

(***************************************************************************)
(* seeking, AtOffset and Ref                                               *)
(***************************************************************************)
\* a finally clause that leaves the cursor where the body left it
SeekingExit_Stay(st, oldpos) == st

\* the finally clause of seeking: fd.seek(oldpos, os.SEEK_SET), with the body's
\* exception in flight or none; an exception of the seek replaces it
SeekingExit(st, oldpos) == IOseekSet(st, oldpos)

\* the entry of seeking: fd.seek(pos, whence), before the try; seek(None) is a
\* TypeError
SeekingEnter(st, pos, whence) ==
    IF pos = NoneV THEN Raise(st, "TypeError") ELSE IOseek(st, pos.v, whence)

\* what follows the entry of seeking in AtOffset.parse
AtOffsetParseBody(type, st, oldpos) ==
    IF Raised(st) THEN st ELSE SeekingExit(parse(type.type, st), oldpos)

AtOffsetParse(type, st) ==
    AtOffsetParseBody(type, SeekingEnter(st, type.point, type.reference), IOtell(st))

\* what follows the entry of seeking in AtOffset.emit
AtOffsetEmitBody(type, value, st, oldpos) ==
    IF Raised(st) THEN st ELSE SeekingExit(emit(type.type, value, st, TRUE), oldpos)

AtOffsetEmit(type, value, st) ==
    AtOffsetEmitBody(type, value, SeekingEnter(st, type.point, type.reference), IOtell(st))

\* return 0
AtOffsetSizeof(type, value, st) == Return(st, IntV(0))

\* Ref.parse after the offset is parsed: AtOffset(self.value_type, offset,
\* reference) names reference, which is no name of the scope: NameError
RefParseValue(type, st) == IF Raised(st) THEN st ELSE Raise(st, "NameError")

RefParse(type, st) == RefParseValue(type, parse(type.offset_type, st))

\* raise NotImplemented: NotImplemented is no exception, which is a TypeError
RefEmit(type, value, st) == Raise(st, "TypeError")

RefSizeof(type, value, st) == sizeof(type.value_type, value, st, TRUE)

(***************************************************************************)
(* SizedFile and WithSize                                                  *)
(***************************************************************************)
\* SizedFile.__init__(file, limit): _pos = 0, _start = file.tell()
SizedFile(st, limit) ==
    [st EXCEPT !.views = Append(@, [start |-> IOtell(st), pos |-> 0, limit |-> limit])]

\* the codec is done with capped: io is the stream again
Uncapped(st) == [st EXCEPT !.views = Front(@)]

\* WithSize.parse after the inner parse: if self.exact: io.seek(start + limit)
WithSizeParseEnd(type, st, start) ==
    IF Raised(st) \/ ~type.exact THEN st ELSE IOseekSet(st, start + type.limit)

WithSizeParse(type, st) ==
    WithSizeParseEnd(type, Uncapped(parse(type.type, SizedFile(st, type.limit))), IOtell(st))

\* WithSize.emit after the inner emit: if self.exact: output.seek(...), and output
\* is no name of the scope: NameError
WithSizeEmitEnd(type, st, start) ==
    IF Raised(st) \/ ~type.exact THEN st ELSE Raise(st, "NameError")

WithSizeEmit(type, value, st) ==
    WithSizeEmitEnd(type, Uncapped(emit(type.type, value, SizedFile(st, type.limit), TRUE)),
                    IOtell(st))

\* WithSize.sizeof: the limit if exact; otherwise self.child, which WithSize does
\* not have: AttributeError
WithSizeSizeof(type, value, st) ==
    IF type.exact THEN Return(st, IntV(type.limit)) ELSE Raise(st, "AttributeError")

(***************************************************************************)
(* Lazy                                                                    *)
(***************************************************************************)
\* Lazy.sizeof: to_value(self.length, context), and a Lazy has no attribute length
\* (its slots are type and size): AttributeError
LazySizeof(type, value, st) == Raise(st, "AttributeError")

\* Lazy.parse: size = self.sizeof(None, context) comes first
LazyParse(type, st) == LazySizeof(type, NoneV, st)

\* Lazy.emit: emit(self.type, value(), io, context); none of the values here can be
\* called: TypeError
LazyEmit(type, value, st) == Raise(st, "TypeError")

(***************************************************************************)
(* AlignTo and AlignedTo                                                   *)
(***************************************************************************)
\* adjustment = io.tell() % self.alignment; with the alignment 0 the modulo is a
\* ZeroDivisionError
Adjustment(type, st) == IOtell(st) % type.alignment

\* if adjustment: io.seek(self.alignment - adjustment, os.SEEK_CUR)
AlignSeek(type, st) ==
    IF type.alignment = 0 THEN Raise(st, "ZeroDivisionError")
    ELSE IF Adjustment(type, st) # 0
    THEN IOseekCur(st, type.alignment - Adjustment(type, st))
    ELSE st

\* self.value * k: the fill, k times over
Times(value, k) == [i \in 1..(Len(value) * k) |-> value[((i - 1) % Len(value)) + 1]]

\* if adjustment: io.write(self.value * (self.alignment - adjustment))
AlignWrite(type, st) ==
    IF type.alignment = 0 THEN Raise(st, "ZeroDivisionError")
    ELSE IF Adjustment(type, st) # 0
    THEN IOwrite(st, Times(type.value, type.alignment - Adjustment(type, st)))
    ELSE st

\* AlignTo.parse after the inner parse: the seek, then return value
AlignToParseEnd(type, st) ==
    IF Raised(st) THEN st
    ELSE IF Raised(AlignSeek(type, st)) THEN AlignSeek(type, st)
    ELSE Return(AlignSeek(type, st), st.ret)

AlignToParse(type, st) == AlignToParseEnd(type, parse(type.type, st))

\* AlignTo.emit after the inner emit: the padding
AlignToEmitEnd(type, st) ==
    IF Raised(st) THEN st
    ELSE IF Raised(AlignWrite(type, st)) THEN AlignWrite(type, st)
    ELSE Return(AlignWrite(type, st), NoneV)

AlignToEmit(type, value, st) == AlignToEmitEnd(type, emit(type.type, value, st, TRUE))

\* return None # TODO
AlignToSizeof(type, value, st) == Return(st, NoneV)

\* AlignedTo.parse after the seek
AlignedToParseBody(type, st) == IF Raised(st) THEN st ELSE parse(type.child, st)

AlignedToParse(type, st) == AlignedToParseBody(type, AlignSeek(type, st))

\* AlignedTo.emit after the padding
AlignedToEmitBody(type, value, st) ==
    IF Raised(st) THEN st ELSE Return(emit(type.child, value, st, TRUE), NoneV)

AlignedToEmit(type, value, st) == AlignedToEmitBody(type, value, AlignWrite(type, st))

\* return None # TODO
AlignedToSizeof(type, value, st) == Return(st, NoneV)

(***************************************************************************)
(* The methods of a codec, by class                                        *)
(***************************************************************************)
TypeParse(type, st) ==
    CASE type.k = "Int" -> IntParse(type, st)
      [] type.k = "Fixed" -> FixedParse(type, st)
      [] type.k = "Str" -> StrParse(type, st)
      [] type.k = "Generic" -> GenericParse(type, st)
      [] type.k = "Switch" -> SwitchParse(type, st)
      [] type.k = "StructType" -> StructParse(type, st)
      [] type.k = "Arr" -> ArrParse(type, st)
      [] type.k = "Data" -> DataParse(type, st)
      [] type.k = "AtOffset" -> AtOffsetParse(type, st)
      [] type.k = "Ref" -> RefParse(type, st)
      [] type.k = "WithSize" -> WithSizeParse(type, st)
      [] type.k = "Lazy" -> LazyParse(type, st)
      [] type.k = "AlignTo" -> AlignToParse(type, st)
      [] type.k = "AlignedTo" -> AlignedToParse(type, st)

TypeEmit(type, value, st) ==
    CASE type.k = "Int" -> IntEmit(type, value, st)
      [] type.k = "Fixed" -> FixedEmit(type, value, st)
      [] type.k = "Str" -> StrEmit(type, value, st)
      [] type.k = "Generic" -> GenericEmit(type, value, st)
      [] type.k = "Switch" -> SwitchEmit(type, value, st)
      [] type.k = "StructType" -> StructEmit(type, value, st)
      [] type.k = "Arr" -> ArrEmit(type, value, st)
      [] type.k = "Data" -> DataEmit(type, value, st)
      [] type.k = "AtOffset" -> AtOffsetEmit(type, value, st)
      [] type.k = "Ref" -> RefEmit(type, value, st)
      [] type.k = "WithSize" -> WithSizeEmit(type, value, st)
      [] type.k = "Lazy" -> LazyEmit(type, value, st)
      [] type.k = "AlignTo" -> AlignToEmit(type, value, st)
      [] type.k = "AlignedTo" -> AlignedToEmit(type, value, st)

TypeSizeof(type, value, st) ==
    CASE type.k = "Int" -> IntSizeof(type, value, st)
      [] type.k = "Fixed" -> FixedSizeof(type, value, st)
      [] type.k = "Str" -> StrSizeof(type, value, st)
      [] type.k = "Generic" -> GenericSizeof(type, value, st)
      [] type.k = "Switch" -> SwitchSizeof(type, value, st)
      [] type.k = "StructType" -> StructSizeof(type, value, st)
      [] type.k = "Arr" -> ArrSizeof(type, value, st)
      [] type.k = "Data" -> DataSizeof(type, value, st)
      [] type.k = "AtOffset" -> AtOffsetSizeof(type, value, st)
      [] type.k = "Ref" -> RefSizeof(type, value, st)
      [] type.k = "WithSize" -> WithSizeSizeof(type, value, st)
      [] type.k = "Lazy" -> LazySizeof(type, value, st)
      [] type.k = "AlignTo" -> AlignToSizeof(type, value, st)
      [] type.k = "AlignedTo" -> AlignedToSizeof(type, value, st)

(***************************************************************************)
(* The drivers                                                             *)
(***************************************************************************)
\* the observer's note of the exception a driver caught before it decided
Caught(st) == [st EXCEPT !.raw = st.exc]

\* the except clauses of a driver: an Error passes; another exception is wrapped
\* when wrap holds and passes otherwise
Handle(st, wrap) ==
    IF ~Raised(st) \/ st.exc.kind = "Error" THEN Caught(st)
    ELSE IF wrap THEN [Caught(st) EXCEPT !.exc = ErrorOf(st, st.exc)]
    ELSE Caught(st)

\* parse(spec, io, context): at_start = not context.path
parse(spec, st) ==
    IF spec = NoType THEN Raise(st, "ValueError")
    ELSE Handle(TypeParse(spec, st), st.path = <<>>)

\* emit(spec, value, io, context): wraps when no context was passed (not context);
\* a codec passes its context on
emit(spec, value, st, context) ==
    IF spec = NoType THEN Raise(st, "ValueError")
    ELSE Handle(TypeEmit(spec, value, st), ~context)

\* sizeof(spec, value, context): wraps when no context was passed (not context);
\* a codec passes its context on
sizeof(spec, value, st, context) ==
    IF spec = NoType THEN Raise(st, "ValueError")
    ELSE Handle(TypeSizeof(spec, value, st), ~context)


(***************************************************************************)
(* The codecs, streams and values the calls are made with                  *)
(***************************************************************************)
GenericIds == {"T", "S"}
SwitchIds == {"body"}

Prefixes(s) == {SubSeq(s, 1, n) : n \in 0..Len(s)}

U8 == UInt(8, "le")
U16 == UInt(16, "le")
U32 == UInt(32, "le")
Count(type, n) == Arr(type, IntV(n), NoneV, NoneV)
Record(fields) == StructType(fields, <<>>, <<>>, FALSE, FALSE, <<>>)

RecAB == Record(<<Field("a", U8), Field("b", U16)>>)
PartialAB == StructType(<<Field("a", U8), Field("b", U16)>>, <<>>, <<>>, FALSE, TRUE, <<>>)
Elem == Record(<<Field("x", U8), Field("y", U8)>>)
Items == Record(<<Field("a", Arr(Elem, NoneV, NoneV, NoneV)), Field("b", U8)>>)
Outer == Record(<<Field("p", PartialAB), Field("c", U8)>>)
Table == Record(<<Field("h", U8), Field("items", Count(Elem, 2))>>)
Skips == Record(<<Field("a", U8), Field("skip", NoType), Field("b", U8)>>)
Magic == Record(<<Field("magic", Fixed(<<65, 66>>)), Field("v", U8)>>)
PartialMagic == StructType(<<Field("a", U8), Field("m", Fixed(<<65, 66>>)), Field("c", U8)>>,
                           <<>>, <<>>, FALSE, TRUE, <<>>)
Tagged == StructType(<<Field("tag", U8),
                       Field("body", Switch("body", <<[key |-> IntV(1), type |-> U16],
                                                     [key |-> IntV(2), type |-> U32]>>, NoType))>>,
                     <<>>, <<>>, FALSE, FALSE, <<[name |-> "tag", sw |-> "body"]>>)
UnionAB == StructType(<<Field("a", U16), Field("b", Count(U8, 2))>>, <<>>, <<>>, TRUE, FALSE, <<>>)
UnionP == StructType(<<Field("a", U8), Field("b", U16)>>, <<>>, <<>>, TRUE, TRUE, <<>>)
Box(bound) == StructType(<<Field("x", Generic("T")), Field("n", U8)>>, <<"T">>, bound, FALSE, FALSE, <<>>)
Pair(bound) == StructType(<<Field("x", Generic("T")), Field("n", U8)>>, <<"T", "S">>, bound, FALSE, TRUE, <<>>)

Obj2(a, x, b, y) == ObjV((a :> x) @@ (b :> y))
Ints(s) == ListV([i \in 1..Len(s) |-> IntV(s[i])])

\* each entry: a codec, the streams it is parsed from and the values it is given
Catalog ==
    { [type |-> RecAB, inputs |-> Prefixes(<<1, 2, 3, 4, 5, 6>>),
       values |-> {Obj2("a", IntV(1), "b", IntV(515)), Obj2("a", IntV(1), "b", NoneV)}],
      [type |-> PartialAB, inputs |-> Prefixes(<<1, 2, 3, 4>>),
       values |-> {Obj2("a", IntV(7), "b", IntV(8))}],
      [type |-> Count(U16, 2), inputs |-> Prefixes(<<1, 2, 3, 4, 5>>),
       values |-> {Ints(<<1, 2>>), Ints(<<1>>), Ints(<<1, 2, 3>>)}],
      [type |-> Items, inputs |-> Prefixes(<<1, 2, 3, 4>>),
       values |-> {Obj2("a", ListV(<<Obj2("x", IntV(1), "y", IntV(2))>>), "b", IntV(3))}],
      [type |-> Outer, inputs |-> Prefixes(<<1, 2, 3, 4, 5>>),
       values |-> {Obj2("p", Obj2("a", IntV(1), "b", IntV(2)), "c", IntV(3))}],
      [type |-> Table, inputs |-> Prefixes(<<9, 1, 2, 3, 4, 5>>) \cup {<<9, 1, 2, 3, 4, 8, 5, 6, 7, 8>>},
       values |-> {Obj2("h", IntV(9), "items", ListV(<<Obj2("x", IntV(1), "y", IntV(2)),
                                                      Obj2("x", IntV(3), "y", IntV(4))>>)),
                   Obj2("h", IntV(9), "items", ListV(<<Obj2("x", IntV(1), "y", IntV(2))>>))}],
      [type |-> Skips, inputs |-> Prefixes(<<1, 2, 3>>),
       values |-> {ObjV(("a" :> IntV(1)) @@ ("skip" :> NoneV) @@ ("b" :> IntV(2)))}],
      [type |-> Magic, inputs |-> Prefixes(<<65, 66, 7>>) \cup Prefixes(<<65, 67, 7>>),
       values |-> {Obj2("magic", BytesV(<<65, 66>>), "v", IntV(7))}],
      [type |-> PartialMagic, inputs |-> Prefixes(<<1, 65, 66, 7>>) \cup {<<1, 88, 89>>, <<1, 88, 89, 90>>},
       values |-> {ObjV(("a" :> IntV(1)) @@ ("m" :> BytesV(<<65, 66>>)) @@ ("c" :> IntV(7)))}],
      [type |-> Tagged, inputs |-> Prefixes(<<1, 52, 18, 0>>) \cup Prefixes(<<2, 120, 86, 52, 18>>)
                                   \cup {<<3, 1, 2>>, <<1, 52, 18, 2, 120, 86, 52, 18>>},
       values |-> {Obj2("tag", IntV(1), "body", IntV(4660)), Obj2("tag", IntV(2), "body", IntV(5)),
                   Obj2("tag", IntV(3), "body", IntV(5))}],
      [type |-> UnionAB, inputs |-> Prefixes(<<170, 187, 204>>) \cup {<<170, 187, 170, 187>>},
       values |-> {Obj2("a", IntV(48042), "b", Ints(<<170, 187>>)),
                   Obj2("a", IntV(258), "b", Ints(<<3, 4, 5>>))}],
      [type |-> UnionP, inputs |-> Prefixes(<<1, 2, 3>>),
       values |-> {Obj2("a", IntV(1), "b", IntV(513))}],
      [type |-> Box(<<U16>>), inputs |-> Prefixes(<<1, 2, 3, 4>>),
       values |-> {Obj2("x", IntV(513), "n", IntV(3))}],
      [type |-> Box(<<>>), inputs |-> Prefixes(<<1, 2>>),
       values |-> {Obj2("x", IntV(513), "n", IntV(3))}],
      [type |-> Pair(<<U8>>), inputs |-> Prefixes(<<1, 2, 3>>),
       values |-> {Obj2("x", IntV(5), "n", IntV(3))}],
      [type |-> U8, inputs |-> Prefixes(<<1, 2>>), values |-> {IntV(1), IntV(256)}] }

\* the values of an Int codec: the ends of its range, their neighbours outside it,
\* and 0x04030201 for 32 bits (the model's integers end at 2^31 - 1)
IntValues(bits, signed) ==
    LET half == Pow256(bits \div 8 - 1) * 128
    IN IF bits = 32
       THEN {IntV(0 - 2147483647), IntV(0 - 1), IntV(0), IntV(67305985), IntV(2147483647)}
       ELSE IF signed
       THEN {IntV(0 - half - 1), IntV(0 - half), IntV(0 - 2), IntV(0), IntV(half - 1), IntV(half)}
       ELSE {IntV(0 - 1), IntV(0), IntV(258 % (2 * half)), IntV(2 * half - 1), IntV(2 * half)}

IntCodecs == {IntCodec(bits, order, signed) :
                 bits \in {8, 16, 32}, order \in {"le", "be"}, signed \in BOOLEAN}

Pascal == Str(NoneV, "pascal", <<>>, FALSE, 1, U8)

\* the primitive codecs
Primitives ==
    { [type |-> t, inputs |-> {<<>>, <<1, 2, 3, 4>>}, values |-> IntValues(t.bits, t.signed)] :
         t \in IntCodecs }
    \cup
    { [type |-> Pascal, inputs |-> Prefixes(<<3, 97, 98, 99, 100>>) \cup {<<2, 195, 169>>, <<1, 255>>},
       values |-> {StrV(<<97, 98, 99>>), StrV(<<>>), StrV(<<97, 233>>)}],
      [type |-> Fixed(<<65, 66>>), inputs |-> Prefixes(<<65, 66, 67>>) \cup {<<65, 67>>, <<66, 66, 1>>},
       values |-> {BytesV(<<65, 66>>), BytesV(<<88, 89>>), BytesV(<<65>>), NoneV}] }

\* an array of u8 ended by the stop value 0
Sentinel == Arr(U8, NoneV, NoneV, IntV(0))

\* Str(type='c'): utf-8, one-byte units, the terminator b'\x00'
CStr == Str(NoneV, "c", <<>>, FALSE, 1, U8)

\* Str(length=3, exact=True) of each kind and unit
ExactStr(type, length_unit) == Str(IntV(3), type, <<>>, TRUE, length_unit, U8)

\* WithSize(type, 2): a bounded view of two bytes
Capped(type) == WithSize(type, 2, FALSE)

\* the arrays, strings and modifiers
Combinators ==
    { [type |-> Sentinel, inputs |-> Prefixes(<<1, 2, 0, 3>>) \cup {<<0>>, <<1, 0, 2, 0>>},
       values |-> {Ints(<<1, 2>>), Ints(<<>>), Ints(<<1, 0, 2>>), Ints(<<256>>)}],
      [type |-> CStr, inputs |-> Prefixes(<<104, 105, 0, 255>>) \cup {<<0>>, <<255, 0, 1>>, <<195, 169, 0>>},
       values |-> {StrV(<<104, 105>>), StrV(<<>>), StrV(<<97, 0, 98>>), StrV(<<233>>), IntV(1)}],
      [type |-> Capped(Data(NoneV)), inputs |-> Prefixes(<<1, 2, 3>>),
       values |-> {BytesV(<<7>>), BytesV(<<7, 8>>), BytesV(<<7, 8, 9>>)}],
      [type |-> Capped(Data(IntV(1))), inputs |-> Prefixes(<<1, 2, 3>>), values |-> {BytesV(<<7>>)}],
      [type |-> Capped(Data(IntV(4))), inputs |-> Prefixes(<<1, 2, 3, 4, 5>>), values |-> {BytesV(<<7>>)}],
      [type |-> Capped(AtOffset(U8, IntV(1), "set")), inputs |-> Prefixes(<<1, 2, 3>>),
       values |-> {IntV(7)}],
      [type |-> Capped(AtOffset(U8, IntV(4), "set")), inputs |-> Prefixes(<<1, 2, 3, 4, 5>>),
       values |-> {IntV(7)}],
      [type |-> Capped(AtOffset(Data(NoneV), IntV(3), "cur")), inputs |-> Prefixes(<<1, 2, 3, 4, 5>>),
       values |-> {BytesV(<<7>>)}],
      [type |-> Capped(AtOffset(U8, IntV(0 - 1), "cur")), inputs |-> Prefixes(<<1, 2, 3>>),
       values |-> {IntV(7)}],
      [type |-> Capped(AtOffset(U8, IntV(0 - 1), "end")), inputs |-> Prefixes(<<1, 2, 3>>),
       values |-> {IntV(7)}] }
    \cup
    { [type |-> WithSize(type, 3, TRUE), inputs |-> Prefixes(<<1, 2, 3, 4, 5>>),
       values |-> {IntV(7), IntV(70000)}] : type \in {U8, U16} }
    \cup
    { [type |-> Lazy(U8, size), inputs |-> Prefixes(<<1, 2>>), values |-> {IntV(3)}] :
         size \in {NoneV, IntV(1)} }
    \cup
    { [type |-> Arr(U16, NoneV, IntV(3), NoneV), inputs |-> Prefixes(<<1, 2, 3, 4, 5, 6>>),
       values |-> {Ints(<<1>>), Ints(<<1, 2>>), Ints(<<1, 2, 3>>)}],
      [type |-> Arr(U8, NoneV, IntV(2), IntV(0)), inputs |-> Prefixes(<<1, 0, 3>>),
       values |-> {Ints(<<>>), Ints(<<1>>), Ints(<<1, 2>>)}] }
    \cup
    { [type |-> AlignTo(U8, alignment, value), inputs |-> {<<>>, <<1>>, <<1, 2, 3, 4, 5, 6>>},
       values |-> {IntV(7), IntV(300)}] :
         alignment \in {0, 4}, value \in {<<0>>, <<170, 187>>} }
    \cup
    { [type |-> AlignedTo(U8, alignment, value), inputs |-> {<<>>, <<1>>, <<1, 2, 3, 4, 5, 6>>},
       values |-> {IntV(7), IntV(300)}] :
         alignment \in {0, 4}, value \in {<<0>>, <<170, 187>>} }
    \cup
    { [type |-> Ref(U8, U8, "set"), inputs |-> Prefixes(<<2, 7, 9>>) \cup {<<0>>},
       values |-> {IntV(9)}] }
    \cup
    { [type |-> AtOffset(type, point, reference), inputs |-> {<<>>, <<1, 2, 3>>, <<1, 2, 3, 4>>},
       values |-> {IntV(9), IntV(300)}] :
         type \in {U8, U16}, point \in {NoneV, IntV(0 - 1), IntV(1), IntV(2), IntV(5)},
         reference \in {"set", "cur", "end"} }
    \cup
    { [type |-> ExactStr(type, length_unit),
       inputs |-> {<<>>, <<2, 97, 98>>, <<2, 97, 98, 0, 99, 100, 101, 102>>, <<97, 98, 99, 100>>},
       values |-> {StrV(SubSeq(<<97, 98, 99, 100, 101, 102, 103>>, 1, n)) : n \in {0, 1, 3, 4, 7}}] :
         type \in {"raw", "c", "pascal"}, length_unit \in {1, 2} }

Entry(type) == CHOOSE e \in Catalog \cup Primitives \cup Combinators : e.type = type

(***************************************************************************)
(* The calls.  A caller either lets the driver make a Context (context =   *)
(* None) or passes its own, and either passes the stream it holds or, for  *)
(* parse, the bytes of it (a new stream at 0) and, for emit, no stream (a  *)
(* new empty one).                                                         *)
(***************************************************************************)
Start(context, buf, pos) ==
    [buf |-> buf, pos |-> pos, path |-> IF context THEN ctx ELSE <<>>, encl |-> <<>>,
     gen |-> stacks, sel |-> sel, log |-> <<>>, exc |-> NoExc, raw |-> NoExc, ret |-> NoneV,
     views |-> <<>>, reads |-> <<>>, excepts |-> <<>>]

NoCall ==
    [op |-> "none", context |-> FALSE, fresh |-> FALSE, value |-> NoneV,
     path0 |-> <<>>, pos0 |-> 0, buf0 |-> <<>>, gen0 |-> [g \in GenericIds |-> <<>>],
     path |-> <<>>, pos |-> 0, buf |-> <<>>, gen |-> [g \in GenericIds |-> <<>>],
     exc |-> NoExc, raw |-> NoExc, ret |-> NoneV, log |-> <<>>, reads |-> <<>>,
     excepts |-> <<>>,
     prev |-> [op |-> "none", fresh |-> FALSE, value |-> NoneV, ret |-> NoneV, ok |-> FALSE,
               buf |-> <<>>, pos |-> 0]]

\* what a call leaves behind: the stream, the caller's context, the stacks and
\* selectors of the codec, and the record of the call
Finish(op, context, fresh, value, s0, r) ==
    /\ last' = [op |-> op, context |-> context, fresh |-> fresh, value |-> value,
                path0 |-> s0.path, pos0 |-> s0.pos, buf0 |-> s0.buf, gen0 |-> s0.gen,
                path |-> r.path, pos |-> r.pos, buf |-> r.buf, gen |-> r.gen,
                exc |-> r.exc, raw |-> r.raw, ret |-> r.ret, log |-> r.log,
                reads |-> r.reads, excepts |-> r.excepts,
                prev |-> [op |-> last.op, fresh |-> last.fresh, value |-> last.value,
                          ret |-> last.ret, ok |-> last.exc = NoExc, buf |-> last.buf,
                          pos |-> last.pos]]
    /\ io' = [buf |-> r.buf, pos |-> r.pos]
    /\ ctx' = IF context THEN r.path ELSE ctx
    /\ stacks' = r.gen
    /\ sel' = r.sel
    /\ calls' = calls + 1
    /\ UNCHANGED typ

CanCall == calls < MaxCalls

\* parse(typ, io, context) and parse(typ, io.getvalue(), context)
DoParse(context, fresh) ==
    /\ CanCall
    /\ LET s0 == Start(context, io.buf, IF fresh THEN 0 ELSE io.pos)
       IN Finish("parse", context, fresh, NoneV, s0, parse(typ, s0))

\* emit(typ, value, io, context) and emit(typ, value, None, context)
DoEmit(value, context, fresh) ==
    /\ CanCall
    /\ LET s0 == IF fresh THEN Start(context, <<>>, 0) ELSE Start(context, io.buf, io.pos)
       IN Finish("emit", context, fresh, value, s0, emit(typ, value, s0, context))

\* sizeof(typ, value, context)
DoSizeof(value, context) ==
    /\ CanCall
    /\ LET s0 == Start(context, io.buf, io.pos)
       IN Finish("sizeof", context, FALSE, value, s0, sizeof(typ, value, s0, context))

\* the values a caller has for typ: those of the catalog and the value the last
\* parse returned; sizeof is also called without a value
Values == Entry(typ).values \cup (IF last.op = "parse" THEN {last.ret} ELSE {})

Init ==
    /\ typ \in {e.type : e \in Catalog}
    /\ io \in {[buf |-> b, pos |-> 0] : b \in Entry(typ).inputs}
    /\ ctx = <<>>
    /\ stacks = [g \in GenericIds |-> <<>>]
    /\ sel = [s \in SwitchIds |-> NoneV]
    /\ last = NoCall
    /\ calls = 0

Next ==
    \/ \E context \in BOOLEAN, fresh \in BOOLEAN : DoParse(context, fresh)
    \/ \E value \in Values, context \in BOOLEAN, fresh \in BOOLEAN : DoEmit(value, context, fresh)
    \/ \E value \in Values \cup {NoneV}, context \in BOOLEAN : DoSizeof(value, context)

Spec == Init /\ [][Next]_vars

(***************************************************************************)
(* The primitive codecs, called the way a user calls them: without a       *)
(* context.                                                                *)
(***************************************************************************)
InitPrim ==
    /\ typ \in {e.type : e \in Primitives}
    /\ io \in {[buf |-> b, pos |-> 0] : b \in Entry(typ).inputs}
    /\ ctx = <<>>
    /\ stacks = [g \in GenericIds |-> <<>>]
    /\ sel = [s \in SwitchIds |-> NoneV]
    /\ last = NoCall
    /\ calls = 0

NextPrim ==
    \/ \E fresh \in BOOLEAN : DoParse(FALSE, fresh)
    \/ \E value \in Values, fresh \in BOOLEAN : DoEmit(value, FALSE, fresh)
    \/ \E value \in Values \cup {NoneV} : DoSizeof(value, FALSE)

SpecPrim == InitPrim /\ [][NextPrim]_vars

(***************************************************************************)
(* The arrays, strings and modifiers, called without a context, the cursor *)
(* of the stream at 0 or at 1.                                             *)
(***************************************************************************)
InitComb ==
    /\ typ \in {e.type : e \in Combinators}
    /\ io \in {[buf |-> b, pos |-> p] : b \in Entry(typ).inputs, p \in 0..1}
    /\ io.pos <= Len(io.buf)
    /\ ctx = <<>>
    /\ stacks = [g \in GenericIds |-> <<>>]
    /\ sel = [s \in SwitchIds |-> NoneV]
    /\ last = NoCall
    /\ calls = 0

SpecComb == InitComb /\ [][NextPrim]_vars


(***************************************************************************)
(* C1 - C4: the path stack, the generic stacks and the wrapping of errors  *)
(***************************************************************************)
\* C1: the context path stack is as long when a parse, emit or sizeof call
\* returns or raises as it was when the call was entered.
C1_PathBalance == last.op # "none" => Len(last.path) = Len(last.path0)

\* C2: after a record parse, emit or sizeof call, failed or not, every Generic
\* slot's stack is what it was before the call.
C2_GenericBalance == (last.op # "none" /\ typ.k = "StructType") => last.gen = last.gen0

\* C3: in parse, emit and sizeof alike, a non-Error exception that escapes the
\* codec is wrapped in an Error when the driver was entered with an empty path
\* stack and passes unchanged when the path was not empty; an Error passes
\* unchanged and is never wrapped again.
C3_OutermostWrapping ==
    (last.op # "none" /\ last.raw # NoExc) =>
        IF last.raw.kind = "Error" THEN last.exc = last.raw
        ELSE IF last.path0 = <<>>
        THEN last.exc.kind = "Error" /\ last.exc.cause = last.raw.kind
        ELSE last.exc = last.raw

\* C4: the Error a top-level parse delivers carries the original exception and
\* the path of the names and indices that enclose the failing codec, outermost
\* first.
C4_ErrorPath ==
    (last.op = "parse" /\ last.path0 = <<>> /\ last.exc # NoExc) =>
        /\ last.exc.kind = "Error"
        /\ last.exc.cause \notin {"", "Error"}
        /\ last.exc.path = last.exc.at


(***************************************************************************)
(* What the claims speak of                                                *)
(***************************************************************************)
\* the bytes between the cursor on entry and the cursor on exit
Written == SubSeq(last.buf, last.pos0 + 1, Min(last.pos, Len(last.buf)))
\* the bytes of the stream from the cursor on entry
Ahead == SubSeq(last.buf0, last.pos0 + 1, Len(last.buf0))
\* the first n of them, or all of them when there are fewer
AheadTake(n) == SubSeq(Ahead, 1, Min(n, Len(Ahead)))
\* the last call parsed the bytes that the call before it emitted into a new stream
ParsedBack ==
    /\ last.op = "parse" /\ last.fresh
    /\ last.prev.op = "emit" /\ last.prev.fresh /\ last.prev.ok
\* the last call emitted, into a new stream, the value that the call before it
\* parsed from the whole of its stream
EmittedBack ==
    /\ last.op = "emit" /\ last.fresh /\ last.value = last.prev.ret
    /\ last.prev.op = "parse" /\ last.prev.fresh /\ last.prev.ok
    /\ last.prev.pos = Len(last.prev.buf)

\* v fits an integer of the given width and signedness
Representable(v, bits, signed) ==
    LET half == Pow256(bits \div 8 - 1) * 128
    IN IF bits = 32 THEN signed \/ v >= 0
       ELSE IF signed THEN v >= 0 - half /\ v < half
       ELSE v >= 0 /\ v < 2 * half

(***************************************************************************)
(* C5, C7, C8: the primitive codecs                                        *)
(***************************************************************************)
\* C5: for every Int codec and every integer v of its range, emit writes bits/8
\* bytes, least significant byte first for le and last for be, and parsing the
\* bytes returns v; 01 02 03 04 is 0x04030201 for UInt(32, le).
C5_IntRoundTrip ==
    typ.k = "Int" =>
        LET n == typ.bits \div 8
            lsb == IF typ.order = "le" THEN 1 ELSE n
            msb == IF typ.order = "le" THEN n ELSE 1
        IN /\ (last.op = "emit" /\ last.value.t = "int"
                /\ Representable(last.value.v, typ.bits, typ.signed)) =>
                  /\ last.exc = NoExc
                  /\ Len(Written) = n
                  /\ Written[lsb] = last.value.v % 256
                  /\ Written[msb] = (last.value.v \div Pow256(n - 1)) % 256
           /\ ParsedBack => (last.exc = NoExc /\ last.ret = last.prev.value)
           /\ (typ = U32 /\ last.op = "parse" /\ Ahead = <<1, 2, 3, 4>>) => last.ret = IntV(67305985)
           /\ (typ = U32 /\ last.op = "emit" /\ last.value = IntV(67305985)) => Written = <<1, 2, 3, 4>>

\* a 32-bit little-endian round trip of 0x04030201 has happened
C5_Witness ==
    /\ typ = U32 /\ ParsedBack
    /\ last.buf0 = <<1, 2, 3, 4>> /\ last.ret = IntV(67305985)

\* C7: the pascal string with a u8 length: parse reads a count and that many
\* bytes (03 61 62 63 is "abc"); emit writes the number of units of s and then
\* the bytes of s, so that emit(parse(b)) = b and parse(emit(s)) = s.
C7_PascalRoundTrip ==
    typ = Pascal =>
        /\ (last.op = "parse" /\ Ahead = <<3, 97, 98, 99>>) => last.ret = StrV(<<97, 98, 99>>)
        /\ (last.op = "emit" /\ last.value.t = "str") =>
              /\ last.exc = NoExc
              /\ Written = <<Len(Encode(last.value.v))>> \o Encode(last.value.v)
        /\ ParsedBack => (last.exc = NoExc /\ last.ret = last.prev.value)
        /\ EmittedBack => (last.exc = NoExc /\ last.buf = last.prev.buf)

\* C8: Fixed(pattern).emit writes the bytes of pattern whatever value it is given,
\* as many as sizeof says, and the bytes parse back; Fixed.parse fails when the
\* bytes read are not the pattern.
C8_FixedEmit ==
    typ.k = "Fixed" =>
        /\ last.op = "emit" => (last.exc = NoExc /\ Written = typ.pattern)
        /\ (last.op = "sizeof" /\ last.exc = NoExc) => last.ret = IntV(Len(typ.pattern))
        /\ ParsedBack => last.exc = NoExc
        /\ (last.op = "parse" /\ AheadTake(Len(typ.pattern)) # typ.pattern) =>
              last.exc # NoExc

(***************************************************************************)
(* C6: the cursor and the size of the linear codecs                        *)
(***************************************************************************)
RECURSIVE Linear(_), LinearSize(_), Shaped(_, _)

\* a fixed-width integer, a count-bounded array of linear codecs, or a sequential
\* record of linear codecs
Linear(type) ==
    CASE type.k = "Int" -> TRUE
      [] type.k = "Arr" ->
            type.count # NoneV /\ type.size = NoneV /\ type.stop_value = NoneV /\ Linear(type.type)
      [] type.k = "StructType" ->
            /\ ~type.union /\ type.generics = <<>> /\ type.hooks = <<>>
            /\ \A i \in 1..Len(type.fields) : Linear(type.fields[i].type)
      [] OTHER -> FALSE

RECURSIVE SumTo(_, _)
SumTo(sizes, i) == IF i = 0 THEN 0 ELSE sizes[i] + SumTo(sizes, i - 1)

\* the sum of the component sizes of a linear codec
LinearSize(type) ==
    CASE type.k = "Int" -> type.bits \div 8
      [] type.k = "Arr" -> type.count.v * LinearSize(type.type)
      [] type.k = "StructType" ->
            SumTo([i \in 1..Len(type.fields) |-> LinearSize(type.fields[i].type)], Len(type.fields))

\* value has the shape of the linear codec: every array holds exactly count elements
Shaped(type, value) ==
    CASE type.k = "Int" -> value.t = "int"
      [] type.k = "Arr" ->
            /\ value.t = "list" /\ Len(value.v) = type.count.v
            /\ \A i \in 1..Len(value.v) : Shaped(type.type, value.v[i])
      [] type.k = "StructType" ->
            /\ value.t = "obj"
            /\ \A i \in 1..Len(type.fields) :
                  /\ type.fields[i].name \in DOMAIN value.v
                  /\ Shaped(type.fields[i].type, value.v[type.fields[i].name])

\* C6: for a codec built from sequential records and count-bounded arrays over
\* fixed-width integers, sizeof returns the sum n of the component sizes, and
\* whenever parse or emit completes without raising, the cursor afterwards is the
\* cursor on entry plus n.
C6_CursorDiscipline ==
    Linear(typ) =>
        /\ (last.op = "sizeof" /\ last.exc = NoExc) => last.ret = IntV(LinearSize(typ))
        /\ (last.op \in {"parse", "emit"} /\ last.exc = NoExc) =>
              last.pos = last.pos0 + LinearSize(typ)

\* C6, amended: sizeof returns n whenever it returns; a parse that completes on
\* a stream holding at least n bytes from the cursor, and an emit that completes
\* on a value whose arrays hold exactly count elements, leave the cursor at the
\* cursor on entry plus n.
C6_CursorDisciplineAmended ==
    Linear(typ) =>
        /\ (last.op = "sizeof" /\ last.exc = NoExc) => last.ret = IntV(LinearSize(typ))
        /\ (last.op = "parse" /\ last.exc = NoExc /\ Len(Ahead) >= LinearSize(typ)) =>
              last.pos = last.pos0 + LinearSize(typ)
        /\ (last.op = "emit" /\ last.exc = NoExc /\ Shaped(typ, last.value)) =>
              last.pos = last.pos0 + LinearSize(typ)

\* a record holding an array has been parsed from the middle of its stream
C6_Witness ==
    /\ typ = Table /\ last.op = "parse" /\ last.exc = NoExc
    /\ last.pos0 = 5 /\ last.pos = 10 /\ Len(Ahead) >= LinearSize(typ)

(***************************************************************************)
(* C9: the order of the fields and of their hooks                          *)
(***************************************************************************)
\* the field events of the record under test, without those of the records in it
Events == SelectSeq(last.log, LAMBDA e : e.d = 1)
Steps == [i \in 1..Len(Events) |-> <<Events[i].e, Events[i].n>>]

RECURSIVE FieldSteps(_, _, _)
\* what the fields from i on do when nothing fails: each is begun and ended, its
\* value is stored (parse), and then its hook runs
FieldSteps(type, op, i) ==
    IF i > Len(type.fields) THEN <<>>
    ELSE LET name == type.fields[i].name
             skipped == op = "parse" /\ type.fields[i].type = NoType
             own == IF skipped THEN <<>>
                    ELSE <<<<"begin", name>>, <<"end", name>>>>
                         \o (IF op = "parse" THEN <<<<"store", name>>>> ELSE <<>>)
                         \o (IF HasHook(type, name) THEN <<<<"hook", name>>>> ELSE <<>>)
         IN own \o FieldSteps(type, op, i + 1)

IsPrefix(s, t) == Len(s) <= Len(t) /\ s = SubSeq(t, 1, Len(s))

\* the little-endian number of the n bytes of the stream after the first
BodyAhead(n) == FromBytes(SubSeq(Ahead, 2, n + 1), "le", FALSE)

\* C9: a record parse or emit takes the fields in declaration order, and the hook
\* of a field runs after the field's value is stored (parse) or written (emit) and
\* before the next field begins; so the body of the tagged record is decoded with
\* the option of the tag parsed in the same record (01 34 12 is 0x1234 and
\* 02 78 56 34 12 is 0x12345678).
C9_HookOrdering ==
    (typ.k = "StructType" /\ last.op \in {"parse", "emit"}) =>
        /\ IsPrefix(Steps, FieldSteps(typ, last.op, 1))
        /\ (last.exc = NoExc /\ ~typ.partial) => Steps = FieldSteps(typ, last.op, 1)
        /\ (typ = Tagged /\ last.op = "parse") =>
              /\ last.exc = NoExc <=>
                    \/ Len(Ahead) >= 3 /\ Ahead[1] = 1
                    \/ Len(Ahead) >= 5 /\ Ahead[1] = 2
              /\ last.exc = NoExc =>
                    /\ last.ret.v["tag"] = IntV(Ahead[1])
                    /\ sel["body"] = last.ret.v["tag"]
                    /\ last.ret.v["body"] = IntV(BodyAhead(2 * Ahead[1]))
                    /\ last.pos = last.pos0 + 1 + 2 * Ahead[1]
              /\ AheadTake(3) = <<1, 52, 18>> =>
                    (last.exc = NoExc /\ last.ret.v["body"] = IntV(4660))
              /\ AheadTake(5) = <<2, 120, 86, 52, 18>> =>
                    (last.exc = NoExc /\ last.ret.v["body"] = IntV(305419896))
        /\ (typ = Tagged /\ last.op = "emit" /\ last.value = Obj2("tag", IntV(2), "body", IntV(5))) =>
              (last.exc = NoExc /\ Written = <<2, 5, 0, 0, 0>>)

\* a tagged record with tag 2 has been parsed after one with tag 1, from the same
\* stream
C9_Witness ==
    /\ typ = Tagged /\ last.op = "parse" /\ last.exc = NoExc /\ last.pos0 = 3
    /\ last.prev.op = "parse" /\ last.prev.ret = Obj2("tag", IntV(1), "body", IntV(4660))
    /\ last.ret = Obj2("tag", IntV(2), "body", IntV(305419896))
    /\ Steps = <<<<"begin", "tag">>, <<"end", "tag">>, <<"store", "tag">>, <<"hook", "tag">>,
                 <<"begin", "body">>, <<"end", "body">>, <<"store", "body">>>>

(***************************************************************************)
(* C10: the layout of a union                                              *)
(***************************************************************************)
RECURSIVE MaxEnd(_, _)
\* the furthest a completed field went past the base position
MaxEnd(events, i) ==
    IF i = 0 THEN 0
    ELSE IF events[i].e = "end" THEN Max(events[i].pos - last.pos0, MaxEnd(events, i - 1))
    ELSE MaxEnd(events, i - 1)

RECURSIVE MaxTo(_, _)
MaxTo(sizes, i) == IF i = 0 THEN 0 ELSE Max(sizes[i], MaxTo(sizes, i - 1))

\* C10: every field of a union record is parsed and emitted from the cursor on
\* record entry; after a parse or emit that succeeds the cursor is that position
\* plus the most bytes a field consumed or produced; sizeof is the largest field
\* size (for {a: UInt(16, le), b: Arr(UInt(8), count=2)} on AA BB: a = 0xBBAA,
\* b = [0xAA, 0xBB], sizeof 2, the cursor advances 2).
C10_UnionLayout ==
    (typ.k = "StructType" /\ typ.union) =>
        /\ last.op \in {"parse", "emit"} =>
              /\ \A i \in 1..Len(Events) : Events[i].e = "begin" => Events[i].pos = last.pos0
              /\ last.exc = NoExc => last.pos = last.pos0 + MaxEnd(Events, Len(Events))
        /\ (last.op = "sizeof" /\ last.exc = NoExc) =>
              last.ret = IntV(MaxTo([i \in 1..Len(typ.fields) |-> LinearSize(typ.fields[i].type)],
                                    Len(typ.fields)))
        /\ (typ = UnionAB /\ last.op = "parse" /\ AheadTake(2) = <<170, 187>>) =>
              /\ last.exc = NoExc
              /\ last.ret = Obj2("a", IntV(48042), "b", Ints(<<170, 187>>))
              /\ last.pos = last.pos0 + 2
        /\ (typ = UnionAB /\ last.op = "sizeof" /\ last.value = NoneV) =>
              (last.exc = NoExc /\ last.ret = IntV(2))

\* the union of the example has been parsed from AA BB in the middle of a stream
C10_Witness ==
    /\ typ = UnionAB /\ last.op = "parse" /\ last.exc = NoExc
    /\ last.pos0 = 2 /\ last.pos = 4
    /\ last.ret = Obj2("a", IntV(48042), "b", Ints(<<170, 187>>))
    /\ Len(Events) = 6

(***************************************************************************)
(* C11: the array ended by a stop value                                    *)
(***************************************************************************)
RECURSIVE Before(_, _)
\* the elements of s that precede its first b, all of s when it holds no b
Before(s, b) == IF s = <<>> \/ s[1] = b THEN <<>> ELSE <<s[1]>> \o Before(Tail(s), b)

Holds(s, b) == \E i \in 1..Len(s) : s[i] = b
\* the numbers of a list of int values
Numbers(value) == [i \in 1..Len(value.v) |-> value.v[i].v]
IsBytes(value) ==
    value.t = "list" /\ \A i \in 1..Len(value.v) : value.v[i].t = "int" /\ value.v[i].v \in 0..255

\* C11: Arr(UInt(8), stop_value=0).parse returns the elements before the first
\* element equal to the stop value, without it, and leaves the cursor right after
\* it (01 02 00 03 gives [1, 2] and the cursor at 3); emit writes the elements of
\* v and then one stop value; parse(emit(v)) = v when v does not hold the stop
\* value.
C11_Sentinel ==
    typ = Sentinel =>
        /\ (last.op = "parse" /\ Holds(Ahead, 0)) =>
              /\ last.exc = NoExc
              /\ last.ret = Ints(Before(Ahead, 0))
              /\ last.pos = last.pos0 + Len(Before(Ahead, 0)) + 1
        /\ (last.op = "parse" /\ Ahead = <<1, 2, 0, 3>>) => (last.ret = Ints(<<1, 2>>) /\ last.pos = 3)
        /\ (last.op = "emit" /\ IsBytes(last.value)) =>
              (last.exc = NoExc /\ Written = Numbers(last.value) \o <<0>>)
        /\ (ParsedBack /\ IsBytes(last.prev.value) /\ ~Holds(Numbers(last.prev.value), 0)) =>
              (last.exc = NoExc /\ last.ret = last.prev.value)

\* [1, 2] has been emitted and parsed back, the stop value consumed
C11_Witness ==
    /\ typ = Sentinel /\ ParsedBack /\ last.prev.value = Ints(<<1, 2>>)
    /\ last.buf0 = <<1, 2, 0>> /\ last.ret = Ints(<<1, 2>>) /\ last.pos = 3


\* C12: Str(type='c', length_unit=1).parse reads up to and including the first
\* terminator byte, returns the decoding of the bytes before it and leaves the
\* cursor right after it, the stream unchanged (68 69 00 ff gives "hi" and moves
\* the cursor by 3); emit(s) writes the encoded bytes of s and then one
\* terminator (emit("hi") writes 68 69 00).
C12_CString ==
    typ = CStr =>
        /\ (last.op = "parse" /\ Holds(Ahead, 0)) =>
              /\ last.pos = last.pos0 + Len(Before(Ahead, 0)) + 1
              /\ last.buf = last.buf0
              /\ Decodable(Before(Ahead, 0)) =>
                    (last.exc = NoExc /\ last.ret = StrV(Decode(Before(Ahead, 0))))
        /\ (last.op = "parse" /\ Ahead = <<104, 105, 0, 255>>) =>
              (last.ret = StrV(<<104, 105>>) /\ last.pos = last.pos0 + 3)
        /\ (last.op = "emit" /\ last.value.t = "str") =>
              (last.exc = NoExc /\ Written = Encode(last.value.v) \o <<0>>)
        /\ (last.op = "emit" /\ last.value = StrV(<<104, 105>>)) => Written = <<104, 105, 0>>

\* "hi" has been parsed from 68 69 00 ff, the byte ff left unread
C12_Witness ==
    /\ typ = CStr /\ last.op = "parse" /\ Ahead = <<104, 105, 0, 255>>
    /\ last.ret = StrV(<<104, 105>>) /\ last.pos = 3


\* C13: every read(n) of a bounded view made over a file at position start with
\* the limit L, whatever reads, writes and seeks came before it on the view,
\* returns at most L - cursor bytes and no byte at or beyond the position
\* start + L of the file; the cursor of the view is within 0..L when it reads.
C13_ReadBound ==
    \A i \in 1..Len(last.reads) :
        LET r == last.reads[i]
        IN /\ r.got <= r.limit - r.cursor
           /\ r.from + r.got <= r.start + r.limit
           /\ r.cursor \in 0..r.limit


\* the bytes of the length prefix of a pascal string
PrefixSize(type) == IF type.type = "pascal" THEN type.length_type.bits \div 8 ELSE 0
\* the bytes of the string region of an exact-length string
RegionSize(type) == type.length.v * type.length_unit
\* the encoded string, with the terminator of a c string, is no longer than the region
FitsRegion(type, value) ==
    Len(Encode(value.v)) + (IF type.type = "c" THEN Len(type.terminator) ELSE 0) <= RegionSize(type)

\* C14: for a Str with exact=True and a length L, of any kind and unit: emit of a
\* string that fits writes L * length_unit bytes for the string, after the
\* length prefix of a pascal string; sizeof reports as many; parse consumes as
\* many; and emit of a string longer than L units raises.
C14_ExactLength ==
    (typ.k = "Str" /\ typ.exact /\ typ.length # NoneV) =>
        /\ (last.op = "emit" /\ last.value.t = "str" /\ FitsRegion(typ, last.value)) =>
              (last.exc = NoExc /\ last.pos - last.pos0 = PrefixSize(typ) + RegionSize(typ))
        /\ (last.op = "sizeof" /\ last.exc = NoExc) =>
              last.ret = IntV(PrefixSize(typ) + RegionSize(typ))
        /\ (last.op = "parse" /\ last.exc = NoExc
                /\ Len(Ahead) >= PrefixSize(typ) + RegionSize(typ)) =>
              last.pos - last.pos0 = PrefixSize(typ) + RegionSize(typ)
        /\ (last.op = "emit" /\ last.value.t = "str"
                /\ Len(Encode(last.value.v)) > RegionSize(typ)) => last.exc # NoExc


\* the position (point, reference) names in the stream of the last call, the cursor
\* on entry at last.pos0; a relative position before the start is the start
SeekPoint(point, reference) ==
    CASE reference = "set" -> point
      [] reference = "cur" -> Max(0, last.pos0 + point)
      [] reference = "end" -> Max(0, Len(last.buf0) + point)

\* C15: after AtOffset(type, point, reference).parse and .emit the cursor of the
\* stream is where it was before the call, whether the inner codec completes or
\* raises (or the seek itself does); and the inner codec runs at the position
\* that (point, reference) names: parse returns the byte of that position and
\* emit writes its byte there, the bytes before it left as they were.
C15_AtOffsetCursor ==
    (typ.k = "AtOffset" /\ last.op \in {"parse", "emit"}) =>
        /\ last.pos = last.pos0
        /\ (typ.type = U8 /\ last.exc = NoExc) =>
              LET at == SeekPoint(typ.point.v, typ.reference)
              IN IF last.op = "parse"
                 THEN at < Len(last.buf0) /\ last.ret = IntV(last.buf0[at + 1])
                 ELSE /\ Len(last.buf) = Max(Len(last.buf0), at + 1)
                      /\ last.buf[at + 1] = last.value.v
                      /\ \A i \in 1..Len(last.buf0) : i # at + 1 => last.buf[i] = last.buf0[i]

\* AtOffset(UInt(16), 1, SEEK_CUR) has been parsed with the cursor at 1 of 01 02
\* 03: the inner parse, at 2, raises for want of a byte, and the cursor is at 1
C15_Witness ==
    /\ typ = AtOffset(U16, IntV(1), "cur") /\ last.op = "parse"
    /\ last.buf0 = <<1, 2, 3>> /\ last.pos0 = 1
    /\ last.exc # NoExc /\ last.pos = 1


\* C16: Ref(UInt(8), UInt(8)).parse parses the offset at the cursor, parses the
\* value at that offset from the start of the stream, returns that value and
\* leaves the cursor right after the offset field.
C16_RefParse ==
    (typ = Ref(U8, U8, "set") /\ last.op = "parse"
        /\ Ahead # <<>> /\ Ahead[1] < Len(last.buf0)) =>
        /\ last.exc = NoExc
        /\ last.ret = IntV(last.buf0[Ahead[1] + 1])
        /\ last.pos = last.pos0 + 1


\* C17: for WithSize(type, limit, exact=True) over an integer codec no wider than
\* the limit, after a parse that succeeds the cursor is at start + limit, start
\* being the cursor on entry, and the emit of a value of the codec's range
\* succeeds and leaves the cursor at start + limit, however many bytes the inner
\* codec consumed or produced.
C17_ExactPositioning ==
    (typ.k = "WithSize" /\ typ.exact) =>
        /\ (last.op = "parse" /\ last.exc = NoExc) => last.pos = last.pos0 + typ.limit
        /\ (last.op = "emit" /\ last.value.t = "int"
                /\ Fits(last.value.v, typ.type.bits \div 8, typ.type.signed)) =>
              (last.exc = NoExc /\ last.pos = last.pos0 + typ.limit)


\* the exception of a field of the record under test, as its except clause met it
Excepted == SelectSeq(last.excepts, LAMBDA x : x.d = 0)
\* the fields of the record under test that completed, and where each ended
Ended == SelectSeq(Events, LAMBDA e : e.e = "end")
Began == SelectSeq(Events, LAMBDA e : e.e = "begin")
EndedNames == {Ended[i].n : i \in 1..Len(Ended)}
\* the value an integer field holds that began at b and ended at e
FieldInt(type, b, e) == IntV(FromBytes(SubSeq(last.buf0, b + 1, e), type.order, type.signed))

\* C18: whenever a field of a record raises during parse and the stream is then at
\* EOF and the record is partial, parse returns a value object whose fields
\* before the failing one hold their parsed values and whose other fields are
\* None, with the cursor (of a record that is no union) at the end of the last
\* completed field; when the record is not partial or a byte remains, the error
\* propagates and the cursor is where the failing field left it.
C18_PartialEOF ==
    (typ.k = "StructType" /\ last.op = "parse" /\ Excepted # <<>>) =>
        LET at == Excepted[1].pos
        IN IF typ.partial /\ at >= Len(last.buf0)
           THEN /\ last.exc = NoExc
                /\ last.ret.t = "obj"
                /\ \A name \in FieldNames(typ) \ EndedNames : last.ret.v[name] = NoneV
                /\ \A i \in 1..Len(Ended) :
                      /\ last.ret.v[Ended[i].n] # NoneV
                      /\ \A j \in 1..Len(typ.fields) :
                            (typ.fields[j].name = Ended[i].n /\ typ.fields[j].type.k = "Int") =>
                                last.ret.v[Ended[i].n] =
                                    FieldInt(typ.fields[j].type, Began[i].pos, Ended[i].pos)
                /\ ~typ.union =>
                      last.pos = (IF Ended = <<>> THEN last.pos0 ELSE Ended[Len(Ended)].pos)
           ELSE /\ last.exc # NoExc
                /\ last.pos = at
                /\ last.buf = last.buf0

\* C19: Lazy(type, size).parse over an integer codec, whose size is known (the
\* size given, else the width of the codec), returns an entry and leaves the
\* cursor at the cursor on entry plus that size, the stream unread.
C19_LazyDeferral ==
    (typ.k = "Lazy" /\ last.op = "parse") =>
        /\ last.exc = NoExc
        /\ last.ret # NoneV
        /\ last.pos = last.pos0 + (IF typ.size # NoneV THEN typ.size.v ELSE typ.type.bits \div 8)

\* C20: after every Arr.emit with a size S that succeeds, the bytes written for
\* the elements, the stop value included, are no more than S: the cursor less the
\* cursor on entry is at most S.
C20_EmitSizeLimit ==
    (typ.k = "Arr" /\ typ.size # NoneV /\ last.op = "emit" /\ last.exc = NoExc) =>
        last.pos - last.pos0 <= typ.size.v


\* the smallest multiple of n that is no less than p
AlignUp(p, n) == ((p + n - 1) \div n) * n

\* C21: for every alignment n > 0 and every fill that is not empty, one byte or
\* longer: after a parse or an emit of AlignTo(UInt(8), n, fill) that succeeds the
\* cursor is the smallest multiple of n that is no less than the position where
\* the inner codec finished (the cursor on entry plus 1); and in a parse or an
\* emit of AlignedTo(UInt(8), n, fill) that succeeds the inner codec starts at the
\* smallest multiple of n that is no less than the cursor on entry: its byte is
\* read or written there and the cursor ends right after it.
C21_Alignment ==
    (typ.k \in {"AlignTo", "AlignedTo"} /\ typ.alignment > 0 /\ typ.value # <<>>
        /\ last.op \in {"parse", "emit"} /\ last.exc = NoExc) =>
        IF typ.k = "AlignTo"
        THEN last.pos = AlignUp(last.pos0 + 1, typ.alignment)
        ELSE LET at == AlignUp(last.pos0, typ.alignment)
             IN /\ last.pos = at + 1
                /\ last.op = "parse" => (at < Len(last.buf0) /\ last.ret = IntV(last.buf0[at + 1]))
                /\ last.op = "emit" => (at < Len(last.buf) /\ last.buf[at + 1] = last.value.v)


=============================================================================
